---------------------------- MODULE Spec2Model ----------------------------
(***************************************************************************)
(* A model of flake8diff/flake8.py: Flake8Diff.process() and the helpers   *)
(* it calls (get_vcs, color_getter, get_color_kwargs, the FLAKE8_LINE      *)
(* regular expression and the three output templates).                     *)
(*                                                                         *)
(* Text is a sequence of one-character strings, so that the regular        *)
(* expression and str.format() are computed character by character.        *)
(* A terminal attribute of the blessings Terminal is a pair of pseudo      *)
(* characters around the text (the escape sequence that switches the       *)
(* attribute on, and the one that restores normal); the terminal is taken  *)
(* to be one that does styling.                                            *)
(*                                                                         *)
(* The VCS provider and the linter are external: is_used(),                *)
(* changed_files() and changed_lines() are inputs drawn when the call is   *)
(* made.  The linter's output is an input too: process() reads it line by  *)
(* line and never looks ahead, so each line is drawn when the loop of line *)
(* 177 takes it, and the output ends when the loop is left.                *)
(***************************************************************************)
EXTENDS Naturals, Sequences, FiniteSets

VARIABLES
    options,            \* self.options: vcs, standard_flake8_output, color_theme
    pc,                 \* position in process()
    vcs,                \* get_vcs(): the provider selected ("" before)
    probe,              \* get_vcs(): providers of SUPPORTED_VCS.values() already tried
    error,              \* the exception process() ended with ("" for none)
    changed,            \* what vcs.changed_files() yields
    lines_of,           \* what vcs.changed_lines(f) returns, per file
    idx,                \* files of `changed` the for loop has taken
    filename,           \* the loop variable of line 168
    violated_lines,     \* line 169
    consumed,           \* lines of self.flake8(filename).splitlines() the loop has taken
    violation,          \* the loop variable of line 177
    matches,            \* line 178: the groupdict, or NoMatch
    violations,         \* line 176
    overall_violations, \* line 165
    trace,              \* the external calls made and the lines printed, in order
    result,             \* what process() returned ("" before)
    ref                 \* the same run under color_theme 'off': what it kept and printed

vars == <<options, pc, vcs, probe, error, changed, lines_of, idx, filename,
          violated_lines, consumed, violation, matches, violations,
          overall_violations, trace, result, ref>>

---------------------------------------------------------------------------
(* Bounds *)

\* lines of one linter output
MaxOut == 2

---------------------------------------------------------------------------
(* Characters *)

Digits == {"0", "1", "2"}
Letters == {"a", "b", "d", "E", "x"}
\* \s
Whitespace == {" ", "\t"}
\* \w (with \d)
WordChars == Letters \cup Digits \cup {"_"}

AllIn(s, i, j, class) == \A n \in i..j : s[n] \in class
NoneIn(s, i, j, class) == \A n \in i..j : s[n] \notin class

---------------------------------------------------------------------------
(* FLAKE8_LINE, lines 47-56, and re.match *)

\* (?P<filename>[^\s]+) followed by ':'
FilenameEnds(s) ==
    {i \in 1..Len(s) : NoneIn(s, 1, i, Whitespace) /\ i + 1 <= Len(s) /\ s[i + 1] = ":"}

\* (?P<line_number>[\d]+) followed by ':'
LineEnds(s, i) ==
    {j \in (i + 2)..Len(s) : AllIn(s, i + 2, j, Digits) /\ j + 1 <= Len(s) /\ s[j + 1] = ":"}

\* (?P<char_number>[\d]+) followed by ': '
CharEnds(s, j) ==
    {k \in (j + 2)..Len(s) : /\ AllIn(s, j + 2, k, Digits)
                             /\ k + 2 <= Len(s)
                             /\ s[k + 1] = ":"
                             /\ s[k + 2] = " "}

\* mutant: [\w\d]+ in place of [\w\d]*, a code that may not be empty
CodeEndsNonEmpty(s, k) ==
    {m \in (k + 3)..Len(s) : AllIn(s, k + 3, m, WordChars) /\ m + 1 <= Len(s) /\ s[m + 1] = " "}

\* (?P<error_code>[\w\d]*) followed by ' '; m = k + 2 is the empty code
CodeEnds(s, k) ==
    {m \in (k + 2)..Len(s) : AllIn(s, k + 3, m, WordChars) /\ m + 1 <= Len(s) /\ s[m + 1] = " "}

\* every way the pattern matches a prefix of s: where the four groups end
MatchSplits(s) ==
    UNION {UNION {UNION {{<<i, j, k, m>> : m \in CodeEnds(s, k)}
                         : k \in CharEnds(s, j)}
                  : j \in LineEnds(s, i)}
           : i \in FilenameEnds(s)}

\* t comes before u in the order the backtracking matcher tries the splits:
\* every quantifier is greedy, the leftmost group first
Preferred(t, u) ==
    \/ t[1] > u[1]
    \/ t[1] = u[1] /\ t[2] > u[2]
    \/ t[1] = u[1] /\ t[2] = u[2] /\ t[3] > u[3]
    \/ t[1] = u[1] /\ t[2] = u[2] /\ t[3] = u[3] /\ t[4] >= u[4]

\* match() returned None
NoMatch == [matched |-> FALSE, groupdict |-> <<>>]

\* FLAKE8_LINE.match(s), and matches.groupdict() (lines 178-180);
\* (?P<description>.*) takes the rest of the line
FLAKE8_LINE_match(s) ==
    IF MatchSplits(s) = {} THEN NoMatch
    ELSE LET t == CHOOSE t \in MatchSplits(s) : \A u \in MatchSplits(s) : Preferred(t, u)
         IN [matched |-> TRUE,
             groupdict |-> [filename |-> SubSeq(s, 1, t[1]),
                            line_number |-> SubSeq(s, t[1] + 2, t[2]),
                            char_number |-> SubSeq(s, t[2] + 2, t[3]),
                            error_code |-> SubSeq(s, t[3] + 3, t[4]),
                            description |-> SubSeq(s, t[4] + 2, Len(s))]]

---------------------------------------------------------------------------
(* The templates, lines 41-44, and str.format *)

HEADER_STRING == <<"F", "o", "u", "n", "d", " ", "v", "i", "o", "l", "a", "t", "i", "o", "n", "s">>

\* '{filename}:{line}:{char}: {code} {description}'
FLAKE8_OUTPUT(kw) ==
    kw.filename \o <<":">> \o kw.line \o <<":">> \o kw.char \o <<":", " ">>
        \o kw.code \o <<" ">> \o kw.description

\* '{header}: {filename}'
HEADER_OUTPUT(kw) == kw.header \o <<":", " ">> \o kw.filename

\* '\t{code} @ {line}:{char} - {description}'
SIMPLE_OUTPUT(kw) ==
    <<"\t">> \o kw.code \o <<" ", "@", " ">> \o kw.line \o <<":">> \o kw.char
        \o <<" ", "-", " ">> \o kw.description

---------------------------------------------------------------------------
(* COLORS, lines 59-92, color_getter and get_color_kwargs *)

Components == {"header", "filename", "code", "line", "char", "description"}

Identity == [c \in Components |-> "identity"]

COLORS ==
    [off |-> Identity,
     nocolor |-> [Identity EXCEPT !.header = "bold_underline",
                                  !.filename = "standout",
                                  !.code = "bold"],
     dark |-> [Identity EXCEPT !.header = "bold",
                               !.code = "bold_red",
                               !.line = "magenta",
                               !.char = "magenta",
                               !.description = "yellow"],
     light |-> [Identity EXCEPT !.header = "bold",
                                !.code = "bold_red",
                                !.line = "magenta",
                                !.char = "magenta",
                                !.description = "blue"]]

\* the pseudo characters of the terminal's escape sequences
StyleOn == {"<bold_underline>", "<standout>", "<bold>", "<bold_red>", "<magenta>",
            "<yellow>", "<blue>"}
StyleOff == "<normal>"
StyleChars == StyleOn \cup {StyleOff}

\* terminal.<attr>(text); identity = lambda x: x
Styled(attr, text) ==
    IF attr = "identity" THEN text
    ELSE <<"<" \o attr \o ">">> \o text \o <<StyleOff>>

\* lines 138-145: COLORS.get(theme, {}).get(component, identity)
color_getter(opts, component) ==
    IF opts.color_theme \in DOMAIN COLORS
    THEN COLORS[opts.color_theme][component]
    ELSE "identity"

\* details.get(i, '')
DetailsGet(details, i) == IF i \in DOMAIN details THEN details[i] ELSE <<>>

\* lines 147-159
get_color_kwargs(opts, details) ==
    [line |-> Styled(color_getter(opts, "line"), DetailsGet(details, "line_number")),
     char |-> Styled(color_getter(opts, "char"), DetailsGet(details, "char_number")),
     code |-> Styled(color_getter(opts, "code"), DetailsGet(details, "error_code")),
     description |-> Styled(color_getter(opts, "description"),
                            DetailsGet(details, "description")),
     filename |-> Styled(color_getter(opts, "filename"), DetailsGet(details, "filename")),
     header |-> Styled(color_getter(opts, "header"), DetailsGet(details, "header"))]

---------------------------------------------------------------------------
(* The environment: the provider registry, the repository, the linter *)

\* .vcs.SUPPORTED_VCS: the registered providers, in registration order
SUPPORTED_VCS == <<"git", "hg">>

SupportedNames == {SUPPORTED_VCS[i] : i \in 1..Len(SUPPORTED_VCS)}

\* options.get('vcs'): "" stands for an option that is unset, None or empty
VcsOptionValues == {"", "git", "hg", "svn"}

\* options.get('color_theme'): "" stands for an unset option
ThemeOptionValues == {"off", "nocolor", "dark", "light", "", "solarized"}

\* if self.options.get(...)
Truthy(v) == v # ""

Files == {<<"a">>, <<"b">>}

\* changed_files(): every changed path once, in any order
ChangedFileLists ==
    {s \in UNION {[1..n -> Files] : n \in 0..Cardinality(Files)} :
        \A i, j \in 1..Len(s) : i # j => s[i] # s[j]}

\* changed_lines(f): a set of line-number strings
ChangedLineSets == {{}, {<<"1">>}}

ChangedLineMaps == [Files -> ChangedLineSets]

\* a line of linter output in the linter's format
LinterLine(f, l, c, code, d) ==
    f \o <<":">> \o l \o <<":">> \o c \o <<":", " ">> \o code \o <<" ">> \o d

\* lines the linter may print: violations of either file, a blank line,
\* a summary line
LinterLines ==
    {LinterLine(<<"a">>, <<"1">>, <<"2">>, <<"E">>, <<"d">>),
     LinterLine(<<"a">>, <<"0", "1">>, <<"2">>, <<"E">>, <<"d">>),
     LinterLine(<<"b">>, <<"1">>, <<"2">>, <<"E">>, <<"d">>),
     <<>>,
     <<"2", " ", "E">>}

---------------------------------------------------------------------------
(* The trace: external calls and printed lines *)

NoDetails == <<>>

\* a call of the provider or of the linter
Call(op, name, file, ret) ==
    [op |-> op, name |-> name, file |-> file, ret |-> ret,
     text |-> <<>>, details |-> NoDetails]

\* print(text): name is the template, details the record it was formatted
\* from, file the file of the loop
Printed(item, file) ==
    [op |-> "print", name |-> item.tpl, file |-> file, ret |-> TRUE,
     text |-> item.text, details |-> item.details]

PrintedAll(items, file) == [i \in 1..Len(items) |-> Printed(items[i], file)]

Texts(items) == [i \in 1..Len(items) |-> items[i].text]

---------------------------------------------------------------------------
(* process(), lines 161-203 *)

\* mutant: the line number is looked up after it was coloured
ProcessLineColored(opts, vlines, viols, m) ==
    IF m.matched /\ get_color_kwargs(opts, m.groupdict).line \in vlines
    THEN [violations |-> Append(viols, m.groupdict),
          out |-> IF opts.standard_flake8_output
                  THEN <<[tpl |-> "FLAKE8_OUTPUT",
                          text |-> FLAKE8_OUTPUT(get_color_kwargs(opts, m.groupdict)),
                          details |-> m.groupdict]>>
                  ELSE <<>>]
    ELSE [violations |-> viols, out |-> <<>>]

\* mutant: the standard output is not printed as the violation is kept
ProcessLineSilent(opts, vlines, viols, m) ==
    IF m.matched /\ m.groupdict.line_number \in vlines
    THEN [violations |-> Append(viols, m.groupdict), out |-> <<>>]
    ELSE [violations |-> viols, out |-> <<>>]

\* lines 179-186: the body of the loop over the linter's lines, after the
\* match: the violations kept and what is printed
ProcessLine(opts, vlines, viols, m) ==
    IF m.matched /\ m.groupdict.line_number \in vlines
    THEN [violations |-> Append(viols, m.groupdict),
          out |-> IF opts.standard_flake8_output
                  THEN <<[tpl |-> "FLAKE8_OUTPUT",
                          text |-> FLAKE8_OUTPUT(get_color_kwargs(opts, m.groupdict)),
                          details |-> m.groupdict]>>
                  ELSE <<>>]
    ELSE [violations |-> viols, out |-> <<>>]

\* mutant: the header is printed whether or not a violation was kept
FinishFileAlwaysHeader(opts, file, viols) ==
    IF ~opts.standard_flake8_output
    THEN <<[tpl |-> "HEADER_OUTPUT",
            text |-> HEADER_OUTPUT(get_color_kwargs(opts,
                        [filename |-> file, header |-> HEADER_STRING])),
            details |-> [filename |-> file, header |-> HEADER_STRING]]>>
         \o [i \in 1..Len(viols) |->
                [tpl |-> "SIMPLE_OUTPUT",
                 text |-> SIMPLE_OUTPUT(get_color_kwargs(opts, viols[i])),
                 details |-> viols[i]]]
    ELSE <<>>

\* lines 190-201: what is printed once the linter's lines are done
FinishFile(opts, file, viols) ==
    IF viols # <<>> /\ ~opts.standard_flake8_output
    THEN <<[tpl |-> "HEADER_OUTPUT",
            text |-> HEADER_OUTPUT(get_color_kwargs(opts,
                        [filename |-> file, header |-> HEADER_STRING])),
            details |-> [filename |-> file, header |-> HEADER_STRING]]>>
         \o [i \in 1..Len(viols) |->
                [tpl |-> "SIMPLE_OUTPUT",
                 text |-> SIMPLE_OUTPUT(get_color_kwargs(opts, viols[i])),
                 details |-> viols[i]]]
    ELSE <<>>

\* mutant: the files are taken in sorted order
NextFilenameSorted(files, i) ==
    CHOOSE f \in {files[j] : j \in 1..Len(files)} :
        Cardinality({j \in 1..Len(files) : files[j][1] = "a" /\ f[1] = "b"}) = i

\* line 168: the file the for loop takes after i files
NextFilename(files, i) == files[i + 1]

\* mutant: a run that kept one violation passes too
ReturnValueLenient(overall) == overall <= 1

\* line 203
ReturnValue(overall) == overall = 0

\* the run compared with: the same options but color_theme 'off'
RefOptions == [options EXCEPT !.color_theme = "off"]

Init ==
    /\ options \in [vcs : VcsOptionValues,
                    standard_flake8_output : BOOLEAN,
                    color_theme : ThemeOptionValues]
    /\ pc = "get_vcs"
    /\ vcs = ""
    /\ probe = 0
    /\ error = ""
    /\ changed = <<>>
    /\ lines_of = [f \in Files |-> {}]
    /\ idx = 0
    /\ filename = <<>>
    /\ violated_lines = {}
    /\ consumed = 0
    /\ violation = <<>>
    /\ matches = NoMatch
    /\ violations = <<>>
    /\ overall_violations = 0
    /\ trace = <<>>
    /\ result = ""
    /\ ref = [violations |-> <<>>, overall_violations |-> 0, printed |-> <<>>,
              result |-> ""]

\* mutant: a provider that is not registered is used as if it were
GetVcsUnsupportedUsed ==
    /\ pc = "get_vcs"
    /\ Truthy(options.vcs)
    /\ options.vcs \notin SupportedNames
    /\ vcs' = options.vcs
    /\ pc' = "changed_files"
    /\ UNCHANGED <<options, probe, error, changed, lines_of, idx, filename,
                   violated_lines, consumed, violation, matches, violations,
                   overall_violations, trace, result, ref>>

\* lines 113-116: the option names a provider that is not registered
GetVcsUnsupported ==
    /\ pc = "get_vcs"
    /\ Truthy(options.vcs)
    /\ options.vcs \notin SupportedNames
    /\ error' = "UnsupportedVCSError"
    /\ pc' = "raised"
    /\ UNCHANGED <<options, vcs, probe, changed, lines_of, idx, filename,
                   violated_lines, consumed, violation, matches, violations,
                   overall_violations, trace, result, ref>>

\* lines 113-117: the option names a registered provider
GetVcsNamed ==
    /\ pc = "get_vcs"
    /\ Truthy(options.vcs)
    /\ options.vcs \in SupportedNames
    /\ vcs' = options.vcs
    /\ pc' = "changed_files"
    /\ UNCHANGED <<options, probe, error, changed, lines_of, idx, filename,
                   violated_lines, consumed, violation, matches, violations,
                   overall_violations, trace, result, ref>>

\* mutant: the loop does not stop at the first provider in use
GetVcsProbeAll ==
    /\ pc = "get_vcs"
    /\ ~Truthy(options.vcs)
    /\ probe < Len(SUPPORTED_VCS)
    /\ \E used \in BOOLEAN :
        /\ trace' = Append(trace, Call("is_used", SUPPORTED_VCS[probe + 1], <<>>, used))
        /\ vcs' = IF used THEN SUPPORTED_VCS[probe + 1] ELSE vcs
        /\ pc' = IF probe + 1 = Len(SUPPORTED_VCS) /\ (used \/ vcs # "")
                 THEN "changed_files" ELSE pc
        /\ probe' = probe + 1
    /\ UNCHANGED <<options, error, changed, lines_of, idx, filename,
                   violated_lines, consumed, violation, matches, violations,
                   overall_violations, result, ref>>

\* lines 119-122: one turn of the loop over SUPPORTED_VCS.values()
GetVcsProbe ==
    /\ pc = "get_vcs"
    /\ ~Truthy(options.vcs)
    /\ probe < Len(SUPPORTED_VCS)
    /\ \E used \in BOOLEAN :
        /\ trace' = Append(trace, Call("is_used", SUPPORTED_VCS[probe + 1], <<>>, used))
        /\ IF used
           THEN vcs' = SUPPORTED_VCS[probe + 1] /\ pc' = "changed_files" /\ probe' = probe + 1
           ELSE vcs' = vcs /\ pc' = pc /\ probe' = probe + 1
    /\ UNCHANGED <<options, error, changed, lines_of, idx, filename,
                   violated_lines, consumed, violation, matches, violations,
                   overall_violations, result, ref>>

\* line 124: no provider is in use
GetVcsNotLocatable ==
    /\ pc = "get_vcs"
    /\ ~Truthy(options.vcs)
    /\ probe = Len(SUPPORTED_VCS)
    /\ error' = "NotLocatableVCSError"
    /\ pc' = "raised"
    /\ UNCHANGED <<options, vcs, probe, changed, lines_of, idx, filename,
                   violated_lines, consumed, violation, matches, violations,
                   overall_violations, trace, result, ref>>

\* line 168: vcs.changed_files()
ChangedFiles ==
    /\ pc = "changed_files"
    /\ \E cf \in ChangedFileLists, cl \in ChangedLineMaps :
        /\ changed' = cf
        /\ lines_of' = cl
    /\ trace' = Append(trace, Call("changed_files", vcs, <<>>, TRUE))
    /\ pc' = "for_file"
    /\ UNCHANGED <<options, vcs, probe, error, idx, filename,
                   violated_lines, consumed, violation, matches, violations,
                   overall_violations, result, ref>>

\* lines 168-177: the next file, its changed lines, the linter run on it
NextFile ==
    /\ pc = "for_file"
    /\ idx < Len(changed)
    /\ LET f == NextFilename(changed, idx) IN
        /\ filename' = f
        /\ violated_lines' = lines_of[f]
        /\ trace' = trace \o <<Call("changed_lines", vcs, f, TRUE),
                               Call("flake8", "", f, TRUE)>>
    /\ idx' = idx + 1
    /\ consumed' = 0
    /\ violations' = <<>>
    /\ ref' = [ref EXCEPT !.violations = <<>>]
    /\ pc' = "for_line"
    /\ UNCHANGED <<options, vcs, probe, error, changed, lines_of, violation,
                   matches, overall_violations, result>>

\* mutant: a line that does not match is an error
ParseLineStrict ==
    /\ pc = "for_line"
    /\ consumed < MaxOut
    /\ \E line \in LinterLines :
        LET m == FLAKE8_LINE_match(line)
            r == ProcessLine(options, violated_lines, violations, m)
            rr == ProcessLine(RefOptions, violated_lines, ref.violations, m)
        IN
         /\ violation' = line
         /\ matches' = m
         /\ violations' = r.violations
         /\ trace' = trace \o PrintedAll(r.out, filename)
         /\ ref' = [ref EXCEPT !.violations = rr.violations,
                               !.printed = @ \o Texts(rr.out)]
         /\ error' = IF m.matched THEN error ELSE "ValueError"
         /\ pc' = IF m.matched THEN pc ELSE "raised"
    /\ consumed' = consumed + 1
    /\ UNCHANGED <<options, vcs, probe, changed, lines_of, idx,
                   filename, violated_lines, overall_violations, result>>

\* lines 177-186: one line of the linter's output
ParseLine ==
    /\ pc = "for_line"
    /\ consumed < MaxOut
    /\ \E line \in LinterLines :
        LET m == FLAKE8_LINE_match(line)
            r == ProcessLine(options, violated_lines, violations, m)
            rr == ProcessLine(RefOptions, violated_lines, ref.violations, m)
        IN
         /\ violation' = line
         /\ matches' = m
         /\ violations' = r.violations
         /\ trace' = trace \o PrintedAll(r.out, filename)
         /\ ref' = [ref EXCEPT !.violations = rr.violations,
                               !.printed = @ \o Texts(rr.out)]
    /\ consumed' = consumed + 1
    /\ UNCHANGED <<options, pc, vcs, probe, error, changed, lines_of, idx,
                   filename, violated_lines, overall_violations, result>>

\* lines 188-201: the linter's lines are done (the loop variables of line
\* 177 are not read again before the next file sets them)
EndFile ==
    /\ pc = "for_line"
    /\ overall_violations' = overall_violations + Len(violations)
    /\ trace' = trace \o PrintedAll(FinishFile(options, filename, violations), filename)
    /\ ref' = [ref EXCEPT
                !.overall_violations = @ + Len(ref.violations),
                !.printed = @ \o Texts(FinishFile(RefOptions, filename, ref.violations))]
    /\ violation' = <<>>
    /\ matches' = NoMatch
    /\ pc' = "for_file"
    /\ UNCHANGED <<options, vcs, probe, error, changed, lines_of, idx, filename,
                   violated_lines, consumed, violations, result>>

\* line 203
Return ==
    /\ pc = "for_file"
    /\ idx = Len(changed)
    /\ result' = IF ReturnValue(overall_violations) THEN "True" ELSE "False"
    /\ ref' = [ref EXCEPT
                !.result = IF ReturnValue(ref.overall_violations) THEN "True" ELSE "False"]
    /\ pc' = "done"
    /\ UNCHANGED <<options, vcs, probe, error, changed, lines_of, idx, filename,
                   violated_lines, consumed, violation, matches, violations,
                   overall_violations, trace>>

Next ==
    \/ GetVcsUnsupported
    \/ GetVcsNamed
    \/ GetVcsProbe
    \/ GetVcsNotLocatable
    \/ ChangedFiles
    \/ NextFile
    \/ ParseLine
    \/ EndFile
    \/ Return

Spec == Init /\ [][Next]_vars

---------------------------------------------------------------------------
(* The line parser on its own: FLAKE8_LINE.match on one line, line 178 *)

\* the parts of a line of the fixed format: a filename without whitespace,
\* digits, digits, an alphanumeric code that may be empty, any description
FormatFilenames == {<<"a">>, <<"a", "b">>, <<"a", ":", "1">>, <<":">>, <<"1", ":", "2", ":">>}
FormatNumbers == {<<"1">>, <<"0", "1">>, <<"1", "2">>}
FormatCodes == {<<>>, <<"E">>, <<"E", "1">>, <<"2">>}
FormatDescriptions ==
    {<<>>, <<"d">>, <<" ", "d">>, <<"d", ":", " ", "x">>, <<":", "1", ":", "2", ":", " ", "E", " ", "d">>,
     <<"\t">>}

FormatParts ==
    [filename : FormatFilenames, line_number : FormatNumbers, char_number : {<<"2">>, <<"1", "0">>},
     error_code : FormatCodes, description : FormatDescriptions]

FormatLine(p) ==
    LinterLine(p.filename, p.line_number, p.char_number, p.error_code, p.description)

\* lines that are not of the format: blank, summaries, a missing part, a
\* missing separator
NoiseLines ==
    {<<>>,
     <<"2", " ", "E">>,
     <<"2">>,
     <<"E", " ", "d">>,
     <<"a", ":", "1", ":", " ", "E", " ", "d">>,
     <<"a", ":", "1", ":", "2", ":", "E", " ", "d">>,
     <<"a", ":", "1", ":", "2", ":", " ", "E">>,
     <<"a", ":", "x", ":", "2", ":", " ", "E", " ", "d">>,
     <<" ", "a", ":", "1", ":", "2", ":", " ", "E", " ", "d">>,
     <<"a", ":", "1", ":", "2", ":", "\t", "E", " ", "d">>}

ParseSamples == {FormatLine(p) : p \in FormatParts} \cup NoiseLines

InitParse ==
    /\ options = [vcs |-> "", standard_flake8_output |-> FALSE, color_theme |-> ""]
    /\ pc = "match"
    /\ vcs = ""
    /\ probe = 0
    /\ error = ""
    /\ changed = <<>>
    /\ lines_of = [f \in Files |-> {}]
    /\ idx = 0
    /\ filename = <<>>
    /\ violated_lines = {}
    /\ consumed = 0
    /\ violation \in ParseSamples
    /\ matches = NoMatch
    /\ violations = <<>>
    /\ overall_violations = 0
    /\ trace = <<>>
    /\ result = ""
    /\ ref = [violations |-> <<>>, overall_violations |-> 0, printed |-> <<>>,
              result |-> ""]

\* line 178
MatchLine ==
    /\ pc = "match"
    /\ matches' = FLAKE8_LINE_match(violation)
    /\ pc' = "matched"
    /\ UNCHANGED <<options, vcs, probe, error, changed, lines_of, idx, filename,
                   violated_lines, consumed, violation, violations,
                   overall_violations, trace, result, ref>>

NextParse == MatchLine

SpecParse == InitParse /\ [][NextParse]_vars

---------------------------------------------------------------------------
(* What the claims are stated in *)

IsPrint(e) == e.op = "print"
IsViolationPrint(e) == e.op = "print" /\ e.name \in {"FLAKE8_OUTPUT", "SIMPLE_OUTPUT"}
IsIsUsed(e) == e.op = "is_used"
IsFlake8(e) == e.op = "flake8"
IsChangedLines(e) == e.op = "changed_lines"

NotStyle(c) == c \notin StyleChars

\* a printed text without the terminal's escape sequences
Plain(text) == SelectSeq(text, NotStyle)

\* the three output formats, written out
FlatText(v) ==
    v.filename \o <<":">> \o v.line_number \o <<":">> \o v.char_number \o <<":", " ">>
        \o v.error_code \o <<" ">> \o v.description
HeaderText(f) ==
    <<"F", "o", "u", "n", "d", " ", "v", "i", "o", "l", "a", "t", "i", "o", "n", "s", ":", " ">> \o f
GroupedText(v) ==
    <<"\t">> \o v.error_code \o <<" ", "@", " ">> \o v.line_number \o <<":">> \o v.char_number
        \o <<" ", "-", " ">> \o v.description

\* where the linter was last invoked, and what was printed since
LastFlake8 ==
    IF \E p \in 1..Len(trace) : IsFlake8(trace[p])
    THEN CHOOSE p \in 1..Len(trace) :
            IsFlake8(trace[p]) /\ \A q \in (p + 1)..Len(trace) : ~IsFlake8(trace[q])
    ELSE Len(trace)
SinceFlake8 == SubSeq(trace, LastFlake8 + 1, Len(trace))

Standard == options.standard_flake8_output
InFile == idx > 0 /\ pc \in {"for_line", "for_file", "done"}
FileDone == idx > 0 /\ pc \in {"for_file", "done"}

---------------------------------------------------------------------------
(* The claims *)

\* C1: a violation is printed if and only if its line number is, as a string,
\* in changed_lines of the file named in the violation record: every printed
\* violation V has V.line_number in changed_lines(V.filename), and a parsed
\* violation V with V.line_number in changed_lines(V.filename) is kept.
C1_PrintedIffInChangedLinesOfItsFile ==
    /\ \A p \in 1..Len(trace) :
        IsViolationPrint(trace[p]) =>
            trace[p].details.line_number \in lines_of[trace[p].details.filename]
    /\ (pc = "for_line" /\ matches.matched
            /\ matches.groupdict.line_number \in lines_of[matches.groupdict.filename])
        => (violations # <<>> /\ violations[Len(violations)] = matches.groupdict)

\* What the code does where C1 fails (lines 169 and 181-182): a parsed
\* violation is kept exactly when its line number is, as a string, in
\* changed_lines of the file of the loop, whatever file the record names.
KeptIffInChangedLinesOfLoopFile ==
    [][(pc = "for_line" /\ consumed' = consumed + 1 /\ matches'.matched) =>
        IF matches'.groupdict.line_number \in lines_of[filename]
        THEN violations' = Append(violations, matches'.groupdict)
        ELSE violations' = violations]_vars

\* C2: process() returns true exactly when no violation was kept in any file
\* (each kept violation is printed once, in either mode), and the overall
\* counter only grows, at the end of a file, by the number kept for it.
C2_ResultIffNothingKept ==
    /\ [](pc = "done" =>
            /\ result \in {"True", "False"}
            /\ (result = "True") <=> (Len(SelectSeq(trace, IsViolationPrint)) = 0))
    /\ [][/\ overall_violations' >= overall_violations
          /\ (pc = "for_line" /\ pc' = "for_file")
                => overall_violations' = overall_violations + Len(violations)
          /\ ~(pc = "for_line" /\ pc' = "for_file")
                => overall_violations' = overall_violations]_vars

C2_Witness ==
    /\ pc = "done"
    /\ result = "False"
    /\ Len(changed) = 2
    /\ overall_violations = 3

\* C3: with an option naming a VCS that is not registered the run ends with
\* UnsupportedVCSError at once: no provider is probed, changed_files() is not
\* called, the linter is not invoked, nothing is printed, nothing returned.
C3_UnsupportedVcsFailsFirst ==
    (Truthy(options.vcs) /\ options.vcs \notin SupportedNames) =>
        /\ trace = <<>>
        /\ result = ""
        /\ vcs = ""
        /\ idx = 0
        /\ pc \in {"get_vcs", "raised"}
        /\ (pc = "raised") <=> (error = "UnsupportedVCSError")
        /\ error \in {"", "UnsupportedVCSError"}

C3_Witness ==
    /\ options.vcs = "svn"
    /\ pc = "raised"
    /\ error = "UnsupportedVCSError"

\* C4: with no VCS named the providers are probed one at a time in
\* registration order, the first whose is_used() is true is selected and none
\* after it is probed; when none is in use the run ends with
\* NotLocatableVCSError and no file is processed.
C4_FirstUsableProviderInOrder ==
    ~Truthy(options.vcs) =>
        LET probes == SelectSeq(trace, IsIsUsed)
            n == Len(probes)
        IN /\ n <= Len(SUPPORTED_VCS)
           /\ \A i \in 1..n : IsIsUsed(trace[i]) /\ trace[i].name = SUPPORTED_VCS[i]
           /\ \A i \in 1..(n - 1) : ~trace[i].ret
           /\ (vcs # "") <=> (n > 0 /\ trace[n].ret)
           /\ vcs # "" => vcs = SUPPORTED_VCS[n]
           /\ pc \notin {"get_vcs", "raised"} => vcs # ""
           /\ (pc = "raised") <=> (error = "NotLocatableVCSError")
           /\ error \in {"", "NotLocatableVCSError"}
           /\ pc = "raised" =>
                /\ n = Len(SUPPORTED_VCS)
                /\ Len(trace) = n
                /\ idx = 0
                /\ result = ""

C4_Witness ==
    /\ options.vcs = ""
    /\ vcs = SUPPORTED_VCS[2]
    /\ pc = "done"
    /\ idx = 2

C6_StandardFlatLinesAsKept ==
    Standard =>
        /\ \A p \in 1..Len(trace) :
                IsPrint(trace[p]) => trace[p].name = "FLAKE8_OUTPUT"
        /\ InFile =>
            /\ Len(SinceFlake8) = Len(violations)
            /\ \A i \in 1..Len(violations) :
                    /\ IsPrint(SinceFlake8[i])
                    /\ Plain(SinceFlake8[i].text) = FlatText(violations[i])

C6_Witness ==
    /\ Standard
    /\ pc = "for_line"
    /\ consumed = 2
    /\ Len(violations) = 2
    /\ violations[1] # violations[2]

\* C7: the run keeps the same violations in the same order, counts the same
\* and returns the same as the run under theme 'off' with the same inputs,
\* whatever the theme; its printed lines are those of that run but for the
\* styling; and under 'off', an unset or an unknown theme every printed line
\* is the plain text of its template.
C7_ThemeChangesOnlyStyling ==
    LET prints == SelectSeq(trace, IsPrint) IN
    /\ violations = ref.violations
    /\ overall_violations = ref.overall_violations
    /\ result = ref.result
    /\ Len(prints) = Len(ref.printed)
    /\ \A i \in 1..Len(prints) : Plain(prints[i].text) = ref.printed[i]
    /\ options.color_theme \notin {"nocolor", "dark", "light"} =>
        \A i \in 1..Len(prints) :
            /\ \A j \in 1..Len(prints[i].text) : prints[i].text[j] \notin StyleChars
            /\ prints[i].text =
                 CASE prints[i].name = "FLAKE8_OUTPUT" -> FlatText(prints[i].details)
                   [] prints[i].name = "SIMPLE_OUTPUT" -> GroupedText(prints[i].details)
                   [] OTHER -> HeaderText(prints[i].details.filename)

C7_Witness ==
    /\ options.color_theme = "dark"
    /\ pc = "done"
    /\ result = "False"
    /\ ref.result = "False"
    /\ Len(ref.printed) = 3
    /\ \E p \in 1..Len(trace) :
         IsPrint(trace[p]) /\ \E j \in 1..Len(trace[p].text) : trace[p].text[j] \in StyleChars

\* C8: for every line made of a filename, a line, a char, a code and a
\* description of the fixed format, joined by ':', ':', ': ' and ' ', the
\* parser returns exactly those five parts.
C8_ParserReturnsTheFiveParts ==
    pc = "matched" =>
        \A p \in FormatParts :
            violation = FormatLine(p) => (matches.matched /\ matches.groupdict = p)

C8_Witness ==
    /\ pc = "matched"
    /\ violation = FormatLine([filename |-> <<"a", ":", "1">>, line_number |-> <<"0", "1">>,
                               char_number |-> <<"2">>, error_code |-> <<>>,
                               description |-> <<"d", ":", " ", "x">>])
    /\ matches.matched
    /\ matches.groupdict.error_code = <<>>

\* C9: a line that is not of the format (blank, summary text) gives no
\* record and no error: nothing is printed, the kept violations and the
\* overall count stay as they are, and the loop goes on.
C9_NoiseLineChangesNothing ==
    [][(pc = "for_line" /\ consumed' = consumed + 1 /\ violation' \in NoiseLines) =>
        /\ ~matches'.matched
        /\ trace' = trace
        /\ violations' = violations
        /\ overall_violations' = overall_violations
        /\ error' = ""
        /\ pc' = "for_line"
        /\ idx' = idx]_vars

C9_Witness ==
    /\ pc = "for_line"
    /\ consumed = 2
    /\ violation \in NoiseLines
    /\ ~matches.matched
    /\ Len(violations) = 1
    /\ idx = 1
    /\ Len(changed) = 2

\* C10: the files are taken in the order changed_files() gave them; for each,
\* changed_lines is fetched once and then the linter invoked once; every
\* line printed was printed for the file the linter was last invoked on; and
\* when a file is done all violations kept so far have been printed.
C10_FileByFileInOrder ==
    LET runs == SelectSeq(trace, IsFlake8)
        fetches == SelectSeq(trace, IsChangedLines)
    IN /\ Len(runs) = idx
       /\ Len(fetches) = idx
       /\ \A i \in 1..idx : runs[i].file = changed[i] /\ fetches[i].file = changed[i]
       /\ \A p \in 1..Len(trace) :
            IsFlake8(trace[p]) =>
                p > 1 /\ IsChangedLines(trace[p - 1]) /\ trace[p - 1].file = trace[p].file
       /\ \A p \in 1..Len(trace) :
            IsPrint(trace[p]) =>
                \E q \in 1..(p - 1) :
                    /\ IsFlake8(trace[q])
                    /\ trace[q].file = trace[p].file
                    /\ \A r \in (q + 1)..p : ~IsFlake8(trace[r])
       /\ pc \in {"for_file", "done"} =>
            Len(SelectSeq(trace, IsViolationPrint)) = overall_violations

C10_Witness ==
    /\ pc = "done"
    /\ changed = <<<<"b">>, <<"a">>>>
    /\ \E p, q \in 1..Len(trace) :
        /\ p < q
        /\ IsPrint(trace[p]) /\ trace[p].file = <<"b">>
        /\ IsPrint(trace[q]) /\ trace[q].file = <<"a">>

===========================================================================
